---- MODULE Spec2Model ----
(***************************************************************************)
(* The "new cluster" page of the assisted-installer UI                     *)
(* (src/components/clusters/NewClusterPage.tsx) as a state machine.        *)
(*                                                                         *)
(* State: the page's route, the pull-secret and version loaders, the form  *)
(* state kept by Formik (values, initialValues, errors, isSubmitting), the *)
(* alerts list, the telemetry log and one record per call of handleSubmit  *)
(* (its position between the two awaited network calls, plus a log of the  *)
(* calls it has made so far).                                              *)
(***************************************************************************)
EXTENDS Naturals, Sequences, FiniteSets, TLC

VARIABLES
  route,              \* current location of the router (history)
  pullSecret,         \* usePullSecretFetch(): {} while undefined, {s} once fetched
  versions,           \* useOpenshiftVersions().versions: {} while undefined, {list}
  loadingOCPVersions, \* useOpenshiftVersions().loading
  errorOCPVersions,   \* useOpenshiftVersions().error: {} or {alert}
  defaultVersion,     \* the default selection of useOpenshiftVersions()
  initialValues,      \* Formik: initialValues.current
  values,             \* Formik: state.values
  errors,             \* Formik: state.errors ("" = no error for the field)
  isSubmitting,       \* Formik: state.isSubmitting
  alerts,             \* AlertsContext: the alerts list
  telemetry,          \* captureException calls
  clusters,           \* the names the clusters-list endpoint returns
  subs,               \* the handleSubmit calls that have not returned yet
  started             \* number of handleSubmit calls so far

vars == <<route, pullSecret, versions, loadingOCPVersions, errorOCPVersions,
          defaultVersion, initialValues, values, errors,
          isSubmitting, alerts, telemetry, clusters, subs, started>>

(***************************************************************************)
(* Bounds and input sets                                                   *)
(***************************************************************************)
MaxSubmissions == 2

routeBasePath == "<basePath>"
NewClusterRoute == routeBasePath \o "/clusters/~new"

WellFormedNames == {"ocp-a"}
Names == {"", "Bad_Name"} \cup WellFormedNames

JSONTexts == {"{\"auths\":{}}"}
PullSecrets == {"", "{not json"} \cup JSONTexts

V45 == [label |-> "OpenShift 4.5", value |-> "4.5", supportLevel |-> "production"]
V46 == [label |-> "OpenShift 4.6", value |-> "4.6", supportLevel |-> "beta"]
VersionLists == {<<>>, <<V45, V46>>}
VersionValues == {"4.5", "4.6"}

ClusterIds == {"abc123", "def456"}
ErrorMessages == {"quota exceeded", "cluster name is taken"}
FetchErrors == {"Network Error"}
ClusterLists == {{}, {[id |-> "c0ffee", name |-> "ocp-a"]}}

(***************************************************************************)
(* Optional values (undefined or a value)                                  *)
(***************************************************************************)
Undefined == {}
Some(x) == {x}
IsDefined(o) == o # {}
Get(o) == CHOOSE x \in o : TRUE

(***************************************************************************)
(* Validation schema (lines 61-69) and the schemas it imports              *)
(***************************************************************************)
NoError == ""

nameValidationSchema(name) ==
  IF name = "" THEN "Required"
  ELSE IF name \notin WellFormedNames THEN "Name format is not valid."
  ELSE NoError

validJSONSchema(text) ==
  IF text = "" THEN "Pull secret must be provided."
  ELSE IF text \notin JSONTexts THEN "Value must be valid JSON."
  ELSE NoError

\* a schema that forgets the pull secret's JSON check
validationSchemaNoJSON(v) ==
  [name             |-> nameValidationSchema(v.name),
   openshiftVersion |-> IF v.openshiftVersion = "" THEN "Required" ELSE NoError,
   pullSecret       |-> IF v.pullSecret = "" THEN "Pull secret must be provided."
                        ELSE NoError]

validationSchema(v) ==
  [name             |-> nameValidationSchema(v.name),
   openshiftVersion |-> IF v.openshiftVersion = "" THEN "Required" ELSE NoError,
   pullSecret       |-> validJSONSchema(v.pullSecret)]

NoErrors == [name |-> NoError, openshiftVersion |-> NoError, pullSecret |-> NoError]

(***************************************************************************)
(* What the hooks and Formik hand to the render function                   *)
(***************************************************************************)
getDefaultVersion == defaultVersion

FormInitialValues(secret, version) ==
  [name |-> "", openshiftVersion |-> version, pullSecret |-> secret]

dirty == values # initialValues
isValid == errors = NoErrors

FormShown == route = NewClusterRoute /\ IsDefined(pullSecret)

(***************************************************************************)
(* Rendering of the version field (lines 98-118, 152-159)                  *)
(***************************************************************************)
Null == ""
NotProductionReady == "Please note that this version is not production ready."

find(list, value) ==
  LET hits == {i \in 1..Len(list) : list[i].value = value}
  IN  IF hits = {} THEN Undefined
      ELSE Some(list[CHOOSE i \in hits : \A j \in hits : i <= j])

supportLevelOf(found) ==
  IF IsDefined(found) THEN Get(found).supportLevel ELSE "undefined"

getOpenshiftVersionHelperText(value) ==
  IF IsDefined(versions)
     /\ supportLevelOf(find(Get(versions), value)) # "production"
  THEN NotProductionReady
  ELSE Null

ocpVersionOptions ==
  IF IsDefined(versions)
  THEN [i \in 1..Len(Get(versions)) |->
          [label |-> Get(versions)[i].label, value |-> Get(versions)[i].value]]
  ELSE <<[label |-> "Loading list of OpenShift versions", value |-> ""]>>

\* a version field that is disabled while loading only
versionIsDisabledWhileLoading == loadingOCPVersions

versionIsDisabled == IsDefined(errorOCPVersions) \/ loadingOCPVersions

saveIsDisabled == isSubmitting \/ ~isValid \/ ~dirty

(***************************************************************************)
(* handleSubmit (lines 71-96): one record per call                         *)
(***************************************************************************)
Call(fn, args) == [fn |-> fn, args |-> args]

Payload(v) == <<v.name, v.openshiftVersion, v.pullSecret>>

clearAlerts == <<>>

takenMessage(name) == "Name \"" \o name \o "\" is already taken."

clusterNames(data) == {c.name : c \in data}

nameIsTaken(v, data) == v.name \in clusterNames(data)

\* a detail path that drops the id of the response
clusterDetailPathNoId(id) == routeBasePath \o "/clusters/"

clusterDetailPath(id) == routeBasePath \o "/clusters/" \o id

clusterListPath == routeBasePath \o "/clusters"

getErrorMessage(e) == e.message

\* an alert that drops the error's message
createFailedAlertNoMessage(e) ==
  [title |-> "Failed to create new cluster", message |-> ""]

createFailedAlert(e) ==
  [title |-> "Failed to create new cluster", message |-> getErrorMessage(e)]

uniqueNameFailure(e) ==
  <<e.message, "Failed to perform unique cluster name validation.">>

\* a handler that forgets to clear the alerts
handleSubmitKeepsAlerts(v) ==
  /\ alerts' = alerts
  /\ started' = started + 1
  /\ subs' = subs \cup
       {[id |-> started + 1, values |-> v, pc |-> "getClusters",
         calls |-> <<Call("getClusters", <<>>)>>]}

\* lines 75-79: clearAlerts(), then getClusters() is awaited
handleSubmit(v) ==
  /\ alerts' = clearAlerts
  /\ started' = started + 1
  /\ subs' = subs \cup
       {[id |-> started + 1, values |-> v, pc |-> "getClusters",
         calls |-> <<Call("clearAlerts", <<>>), Call("getClusters", <<>>)>>]}

\* lines 88-89: postCluster(values) is awaited
issuePostCluster(s, before) ==
  subs' = (subs \ {s}) \cup
    {[s EXCEPT !.pc = "postCluster",
               !.calls = s.calls \o before
                           \o <<Call("postCluster", Payload(s.values))>>]}

\* the promise handleSubmit returned settles: Formik ends the submission
finish(s) ==
  /\ subs' = subs \ {s}
  /\ isSubmitting' = FALSE

\* lines 79-83, getClusters() resolved with the cluster list
getClustersResolved(s) ==
  /\ s.pc = "getClusters"
  /\ IF nameIsTaken(s.values, clusters)
     THEN /\ errors' = [errors EXCEPT !.name = takenMessage(s.values.name)]
          /\ finish(s)
     ELSE /\ issuePostCluster(s, <<>>)
          /\ UNCHANGED <<errors, isSubmitting>>
  /\ UNCHANGED <<route, pullSecret, versions, loadingOCPVersions, errorOCPVersions,
                 defaultVersion, initialValues, values, alerts, telemetry, clusters,
                 started>>

\* a catch block that gives up instead of falling through to the create call
getClustersRejectedAborts(s, e) ==
  /\ s.pc = "getClusters"
  /\ telemetry' = Append(telemetry, uniqueNameFailure(e))
  /\ finish(s)
  /\ UNCHANGED <<route, pullSecret, versions, loadingOCPVersions, errorOCPVersions,
                 defaultVersion, initialValues, values, errors, alerts, clusters,
                 started>>

\* lines 84-89, getClusters() rejected
getClustersRejected(s, e) ==
  /\ s.pc = "getClusters"
  /\ telemetry' = Append(telemetry, uniqueNameFailure(e))
  /\ issuePostCluster(s, <<Call("captureException", uniqueNameFailure(e))>>)
  /\ UNCHANGED <<route, pullSecret, versions, loadingOCPVersions, errorOCPVersions,
                 defaultVersion, initialValues, values, errors, isSubmitting,
                 alerts, clusters, started>>

\* lines 89-90, postCluster() resolved with the new cluster
postClusterResolved(s, data) ==
  /\ s.pc = "postCluster"
  /\ route' = clusterDetailPath(data.id)
  /\ finish(s)
  /\ UNCHANGED <<pullSecret, versions, loadingOCPVersions, errorOCPVersions,
                 defaultVersion, initialValues, values, errors, alerts, telemetry,
                 clusters, started>>

\* lines 91-95, postCluster() rejected
postClusterRejected(s, e) ==
  /\ s.pc = "postCluster"
  /\ alerts' = Append(alerts, createFailedAlert(e))
  /\ finish(s)
  /\ UNCHANGED <<route, pullSecret, versions, loadingOCPVersions, errorOCPVersions,
                 defaultVersion, initialValues, values, errors, telemetry, clusters,
                 started>>

(***************************************************************************)
(* Formik: submitForm, field changes, reinitialisation                     *)
(***************************************************************************)
\* submitForm(): validate, then onSubmit={handleSubmit} (lines 130-131)
submitForm ==
  /\ errors' = validationSchema(values)
  /\ IF validationSchema(values) = NoErrors
     THEN /\ started < MaxSubmissions
          /\ isSubmitting' = TRUE
          /\ handleSubmit(values)
     ELSE /\ isSubmitting' = FALSE
          /\ UNCHANGED <<alerts, subs, started>>
  /\ UNCHANGED <<route, pullSecret, versions, loadingOCPVersions, errorOCPVersions,
                 defaultVersion, initialValues, values, telemetry, clusters>>

setFieldValue(field, value) ==
  /\ values' = [values EXCEPT ![field] = value]
  /\ errors' = validationSchema(values')
  /\ UNCHANGED <<route, pullSecret, versions, loadingOCPVersions, errorOCPVersions,
                 defaultVersion, initialValues, isSubmitting, alerts, telemetry,
                 clusters, subs, started>>

\* enableReinitialize (line 129): the form is reset when initialValues change
reinitialize(next) ==
  IF next # initialValues
  THEN /\ initialValues' = next
       /\ values' = next
       /\ errors' = NoErrors
       /\ isSubmitting' = FALSE
  ELSE UNCHANGED <<initialValues, values, errors, isSubmitting>>

(***************************************************************************)
(* User interface events                                                   *)
(***************************************************************************)
EditName(name) ==
  /\ FormShown
  /\ setFieldValue("name", name)

SelectVersion(k) ==
  /\ FormShown
  /\ ~versionIsDisabled
  /\ k \in 1..Len(ocpVersionOptions)
  /\ setFieldValue("openshiftVersion", ocpVersionOptions[k].value)

EditPullSecret(text) ==
  /\ FormShown
  /\ setFieldValue("pullSecret", text)

\* lines 140-144
FormKeyDown(key) ==
  /\ FormShown
  /\ IF key = "Enter" THEN submitForm ELSE UNCHANGED vars

\* lines 167-175
SaveClick ==
  /\ FormShown
  /\ ~saveIsDisabled
  /\ submitForm

\* a cancel button that goes to the base path
CancelClickToBase ==
  /\ FormShown
  /\ route' = routeBasePath
  /\ UNCHANGED <<pullSecret, versions, loadingOCPVersions, errorOCPVersions,
                 defaultVersion, initialValues, values, errors, isSubmitting,
                 alerts, telemetry, clusters, subs, started>>

\* lines 176-182
CancelClick ==
  /\ FormShown
  /\ route' = clusterListPath
  /\ UNCHANGED <<pullSecret, versions, loadingOCPVersions, errorOCPVersions,
                 defaultVersion, initialValues, values, errors, isSubmitting,
                 alerts, telemetry, clusters, subs, started>>

(***************************************************************************)
(* Loaders                                                                 *)
(***************************************************************************)
\* lines 191-201: the form is rendered once the pull secret fetch has settled
PullSecretFetched(secret) ==
  /\ pullSecret = Undefined
  /\ pullSecret' = Some(secret)
  /\ initialValues' = FormInitialValues(secret, getDefaultVersion)
  /\ values' = FormInitialValues(secret, getDefaultVersion)
  /\ UNCHANGED <<route, versions, loadingOCPVersions, errorOCPVersions,
                 defaultVersion, errors, isSubmitting, alerts, telemetry,
                 clusters, subs, started>>

\* lines 43-48, 124-129: the version list arrives with its default selection
VersionsLoaded(list, default) ==
  /\ IsDefined(pullSecret)
  /\ loadingOCPVersions
  /\ versions' = Some(list)
  /\ loadingOCPVersions' = FALSE
  /\ defaultVersion' = default
  /\ reinitialize(FormInitialValues(Get(pullSecret), default))
  /\ UNCHANGED <<route, pullSecret, errorOCPVersions, alerts, telemetry,
                 clusters, subs, started>>

\* lines 43-48, 56-59: the version fetch fails; the effect raises the alert
VersionsFailed(e) ==
  /\ IsDefined(pullSecret)
  /\ loadingOCPVersions
  /\ errorOCPVersions' = Some(e)
  /\ loadingOCPVersions' = FALSE
  /\ alerts' = Append(alerts, e)
  /\ UNCHANGED <<route, pullSecret, versions, defaultVersion, initialValues,
                 values, errors, isSubmitting, telemetry, clusters, subs, started>>

VersionsError ==
  [title |-> "Failed to retrieve list of supported OpenShift versions",
   message |-> "Network Error"]

DefaultsOf(list) ==
  IF list = <<>> THEN {""} ELSE {list[i].value : i \in 1..Len(list)}

Keys == {"Enter", "a"}

(***************************************************************************)
(* Specification                                                           *)
(***************************************************************************)
InitWith(defaults) ==
  /\ route = NewClusterRoute
  /\ pullSecret = Undefined
  /\ versions = Undefined
  /\ loadingOCPVersions = TRUE
  /\ errorOCPVersions = Undefined
  /\ defaultVersion \in defaults
  /\ initialValues = FormInitialValues("", defaultVersion)
  /\ values = initialValues
  /\ errors = NoErrors
  /\ isSubmitting = FALSE
  /\ alerts = <<>>
  /\ telemetry = <<>>
  /\ clusters \in ClusterLists
  /\ subs = {}
  /\ started = 0

Init == InitWith({""})

Next ==
  \/ \E secret \in PullSecrets : PullSecretFetched(secret)
  \/ \E list \in VersionLists : \E d \in DefaultsOf(list) : VersionsLoaded(list, d)
  \/ VersionsFailed(VersionsError)
  \/ \E name \in Names : EditName(name)
  \/ \E k \in 1..Len(ocpVersionOptions) : SelectVersion(k)
  \/ \E text \in PullSecrets : EditPullSecret(text)
  \/ \E key \in Keys : FormKeyDown(key)
  \/ SaveClick
  \/ CancelClick
  \/ \E s \in subs : getClustersResolved(s)
  \/ \E s \in subs : \E m \in FetchErrors : getClustersRejected(s, [message |-> m])
  \/ \E s \in subs : \E id \in ClusterIds : postClusterResolved(s, [id |-> id])
  \/ \E s \in subs : \E m \in ErrorMessages : postClusterRejected(s, [message |-> m])

Spec == Init /\ [][Next]_vars

\* the same program when the default selection is not known to be empty
\* before the version list has arrived
InitAnyDefault == InitWith({""} \cup VersionValues)

SpecAnyDefault == InitAnyDefault /\ [][Next]_vars

(***************************************************************************)
(* Claims                                                                  *)
(***************************************************************************)
Ids(set) == {s.id : s \in set}

\* the postCluster calls a step issues
IssuesCreate == \E t \in subs' : /\ t.pc = "postCluster"
                                 /\ \A s \in subs : s.id = t.id => s.pc # "postCluster"

CountCalls(s, fn) == Cardinality({k \in 1..Len(s.calls) : s.calls[k].fn = fn})

SchemaValid(v) ==
  /\ v.name \in WellFormedNames
  /\ v.openshiftVersion # ""
  /\ v.pullSecret \in JSONTexts

\* C1: whenever the cluster-list fetch of a submission succeeds and the
\* entered name is the name of a returned cluster, the submission sets a
\* field error on "name", issues no create call, does not navigate, and the
\* alerts list is empty when the submission ends.
C1_TakenNameBlocksSubmission ==
  [][\A s \in subs :
       (getClustersResolved(s) /\ s.values.name \in {c.name : c \in clusters})
         => /\ errors'.name = "Name \"" \o s.values.name \o "\" is already taken."
            /\ s.id \notin Ids(subs')
            /\ ~IssuesCreate
            /\ route' = route
            /\ alerts' = <<>>]_vars

\* C1 without its last clause: the submission itself raises no alert (the
\* alerts list is left as it was).
C1_TakenNameRaisesNoAlert ==
  [][\A s \in subs :
       (getClustersResolved(s) /\ s.values.name \in {c.name : c \in clusters})
         => /\ errors'.name = "Name \"" \o s.values.name \o "\" is already taken."
            /\ s.id \notin Ids(subs')
            /\ ~IssuesCreate
            /\ route' = route
            /\ alerts' = alerts]_vars

\* C2: whenever a create call succeeds and returns id X, the app navigates
\* to "<basePath>/clusters/X" and that submission raises no alert.
C2_CreatedNavigatesToDetail ==
  [][\A s \in subs : \A id \in ClusterIds :
       postClusterResolved(s, [id |-> id])
         => /\ route' = "<basePath>/clusters/" \o id
            /\ alerts' = alerts
            /\ CountCalls(s, "addAlert") = 0]_vars

C2_Witness ==
  /\ route = "<basePath>/clusters/abc123"
  /\ started = 1
  /\ subs = {}
  /\ alerts = <<>>

\* C3: whenever a create call fails with message M, an alert titled
\* "Failed to create new cluster" with message M is raised, the failure does
\* not navigate (the form stays where it was) and the submitting flag is
\* false again, so that the user can submit again.
C3_CreateFailureRaisesAlert ==
  [][\A s \in subs : \A m \in ErrorMessages :
       postClusterRejected(s, [message |-> m])
         => /\ alerts' = Append(alerts, [title |-> "Failed to create new cluster",
                                         message |-> m])
            /\ route' = route
            /\ values' = values
            /\ isSubmitting' = FALSE
            /\ s.id \notin Ids(subs')]_vars

C3_Witness ==
  /\ FormShown
  /\ subs = {}
  /\ started = 1
  /\ alerts = <<[title |-> "Failed to create new cluster", message |-> "quota exceeded"]>>
  /\ ~isSubmitting
  /\ ~saveIsDisabled

\* C4: if the cluster-list fetch of a submission fails, the failure goes to
\* telemetry only (no alert, no field error) and the submission issues the
\* create call with the values it was started with, whether or not the
\* entered name is taken.
C4_FetchFailureProceeds ==
  [][\A s \in subs : \A m \in FetchErrors :
       getClustersRejected(s, [message |-> m])
         => /\ Len(telemetry') = Len(telemetry) + 1
            /\ alerts' = alerts
            /\ errors' = errors
            /\ route' = route
            /\ \E t \in subs' :
                 /\ t.id = s.id
                 /\ t.pc = "postCluster"
                 /\ t.calls[Len(t.calls)] =
                      [fn |-> "postCluster",
                       args |-> <<s.values.name, s.values.openshiftVersion,
                                  s.values.pullSecret>>]]_vars

C4_Witness ==
  \E s \in subs :
    /\ s.pc = "postCluster"
    /\ CountCalls(s, "captureException") = 1
    /\ s.values.name \in {c.name : c \in clusters}
    /\ Len(telemetry) = 1
    /\ alerts = <<>>
    /\ errors = NoErrors

\* C5: the save control is enabled only when every field passes the schema
\* and the form differs from its initial values; with an invalid pull secret
\* it is disabled; and every start of the submit handler (save click or
\* Enter) happens in a state where the form is valid and dirty.
C5_SubmitOnlyValidAndDirty ==
  /\ [](FormShown /\ ~saveIsDisabled => SchemaValid(values) /\ values # initialValues)
  /\ [](FormShown /\ values.pullSecret \notin JSONTexts => saveIsDisabled)
  /\ [][started' # started
          => /\ SchemaValid(values)
             /\ values # initialValues
             /\ \A t \in subs' : t.id \notin Ids(subs) => t.values = values]_vars

C5_Witness ==
  /\ FormShown
  /\ started = 1
  /\ values.name \in WellFormedNames
  /\ values.openshiftVersion # ""
  /\ values.pullSecret = "{not json"
  /\ ~isSubmitting
  /\ saveIsDisabled

\* C6: clicking cancel navigates to "<basePath>/clusters", and from then on
\* no create call is issued and the cluster-list route is not replaced.
C6_CancelCreatesNothing ==
  [][/\ CancelClick => route' = "<basePath>/clusters" /\ ~IssuesCreate
     /\ route = "<basePath>/clusters"
          => route' = route /\ ~IssuesCreate]_vars

\* C6 as amended: clicking cancel navigates to "<basePath>/clusters" and
\* issues no call itself; when no submission is in flight nothing is created
\* afterwards and the cluster-list route stays.
C6_CancelWithNothingInFlight ==
  [][/\ CancelClick
          => route' = "<basePath>/clusters" /\ ~IssuesCreate /\ started' = started
     /\ (route = "<basePath>/clusters" /\ subs = {})
          => route' = route /\ subs' = {} /\ started' = started]_vars

C6_Witness ==
  /\ route = "<basePath>/clusters"
  /\ subs = {}
  /\ started = 1
  /\ values.name # ""

VersionsUnavailable == loadingOCPVersions \/ IsDefined(errorOCPVersions)

C8_WarningIffNotProduction ==
  FormShown =>
    LET list == IF IsDefined(versions) THEN Get(versions) ELSE <<>>
        hits == {i \in 1..Len(list) : list[i].value = values.openshiftVersion}
    IN  (getOpenshiftVersionHelperText(values.openshiftVersion) # Null)
          <=> /\ hits # {}
              /\ \E i \in hits : /\ \A j \in hits : i <= j
                                 /\ list[i].supportLevel # "production"

\* C9: each submission clears the alerts first, then issues exactly one
\* cluster-list fetch and at most one create call, the create call only
\* after the fetch has settled; no call is repeated.
C9_FixedCallSequence ==
  /\ [](\A s \in subs :
          /\ s.calls[1].fn = "clearAlerts"
          /\ s.calls[2].fn = "getClusters"
          /\ CountCalls(s, "getClusters") = 1
          /\ CountCalls(s, "postCluster") <= 1
          /\ (s.pc = "getClusters" => CountCalls(s, "postCluster") = 0)
          /\ (s.pc = "postCluster" => s.calls[Len(s.calls)].fn = "postCluster"))
  /\ [][\A t \in subs' :
          /\ t.id \notin Ids(subs) => alerts' = <<>> /\ t.pc = "getClusters"
                                      /\ t.id = started + 1
          /\ \A s \in subs : s.id = t.id =>
               t = s \/ (s.pc = "getClusters" /\ t.pc = "postCluster")]_vars

C9_Witness ==
  /\ started = 2
  /\ \E s \in subs : /\ s.pc = "postCluster"
                     /\ s.id = 2
                     /\ Len(s.calls) = 3

\* C10: while a submission is in progress (submitting flag set, its
\* cluster-list fetch or create call not settled) no second submission
\* starts, so at most one handleSubmit call is outstanding at any time.
C10_NoSecondSubmission ==
  [][(isSubmitting /\ subs # {}) => (started' = started /\ Cardinality(subs') <= 1)]_vars
====
